---- MODULE Spec2Model ----
(***************************************************************************)
(* Deduplication caches of the 15-minute CipherB alert pipeline.           *)
(*                                                                         *)
(* Time is counted in whole seconds since an arbitrary midnight (a naive   *)
(* datetime).  A process owns one deduplicator object of one class; the    *)
(* cache file on disk is shared by every process of that class.            *)
(***************************************************************************)
EXTENDS Integers, Sequences, FiniteSets, TLC

\* ------------------------------------------------------------------ bounds
\* runs of process 1 (constructions of its deduplicator)
MaxRuns == 2
\* failed writes of the cache file
MaxIoFailures == 1

\* ------------------------------------------------------- program constants
BucketMinutes == 15
ExpiryHours15m == 24
ExpiryHoursFixed == 48
ExpiryHoursProfessional == 24
ExpiryHoursFresh == 24
FreshnessMinutes == 2

\* datetime.timedelta(hours=h), timedelta(minutes=m), in seconds
Hours(h) == h * 3600

Minutes(m) == m * 60

\* ------------------------------------------------------------ input sets
Procs == {1, 2}
Classes == {"HighRisk15m", "Fixed", "Professional", "Fresh"}
Symbols == {"BTC"}
SignalTypes == {"BUY", "SELL"}
\* candle instants handed to a deduplicator: 00:07, 00:13 and 00:15 share
\* or straddle a 15-minute boundary; the cooldown class ignores the instant
SignalTimes(c) ==
    IF c = "HighRisk15m" THEN {420, 780, 900}
    ELSE IF c = "Professional" THEN {900}
    ELSE {780, 900}
\* readings of datetime.utcnow() around the windows of each class: the
\* 24 h or 48 h expiry, the 15 min cooldown, the 2 min freshness window
Instants(c) ==
    IF c = "HighRisk15m" THEN {0, Hours(24), Hours(24) + 1}
    ELSE IF c = "Fixed" THEN {0, Hours(48), Hours(48) + 1}
    ELSE IF c = "Professional"
    THEN {0, Minutes(15) - 1, Minutes(15), Hours(24), Hours(24) + 1}
    ELSE {0, 900, 901, 900 + Hours(24), 901 + Hours(24)}
\* outcome of writing the cache file: written, open() refused, torn write
IoOutcomes == {"ok", "refused", "torn"}

VARIABLES
    cls,        \* the deduplicator class the processes construct
    now,        \* the wall clock, datetime.utcnow()
    store,      \* the cache file of that class
    cache,      \* per process: the deduplicator's in-memory cache
    last,       \* the latest call: operation, arguments, outcome
    hist,       \* successive is_alert_allowed calls for one symbol and type
    allows,     \* per process and key: True results since the key's removal
    allowedAt,  \* per process and key: True results, instant of the latest
    prior,      \* keys admitted by earlier runs of process 1: the instant
                \* of the admission, and whether a cleanup removed it since
    runs,       \* runs of process 1 so far
    ioFailed,   \* writes of the cache file that have failed
    market_data,\* the coins an analyzer loaded, in file order
    run,        \* the latest analyzer run: what it evaluated and found
    unsent,     \* per key: the admission whose alert failed to transmit
    calc,       \* the latest call of a time utility: arguments and result
    sig,        \* the latest call of an indicator: series and flags
    ha          \* the latest call of heikin_ashi: input and output frame

\* what the deduplicator calls leave alone
analysis == <<market_data, run, unsent>>

pure == <<calc, sig, ha>>

vars == <<cls, now, store, cache, last, hist, allows, allowedAt, prior, runs,
          ioFailed, market_data, run, unsent, calc, sig, ha>>

\* ------------------------------------------------------------ finite maps
EmptyMap == [k \in {} |-> 0]

Put(m, k, v) == [x \in (DOMAIN m) \cup {k} |-> IF x = k THEN v ELSE m[x]]

Remove(m, ks) == [x \in (DOMAIN m) \ ks |-> m[x]]

\* --------------------------------------------------------- datetime parts
Minute(ts) == (ts \div Minutes(1)) % 60

\* datetime.strftime('%Y%m%d_%H%M'): date, hour and minute, seconds dropped
StrfMinute(ts) ==
    <<ts \div Hours(24), (ts \div Hours(1)) % 24, Minute(ts)>>

\* datetime.strftime('%Y%m%d_%H%M%S')
StrfSecond(ts) ==
    <<ts \div Hours(24), (ts \div Hours(1)) % 24, Minute(ts),
      ts % Minutes(1)>>

\* datetime.isoformat(): the text of an instant
IsoFormat(t) == [kind |-> "iso", t |-> t]

\* a JSON string that is not an ISO timestamp, and a JSON value that is not
\* a string
BadText == [kind |-> "text", t |-> 0]
NonString == [kind |-> "number", t |-> 0]

\* datetime.fromisoformat(): the instant, ValueError or TypeError
FromIsoFormat(v) ==
    IF v.kind = "iso" THEN [err |-> "none", t |-> v.t]
    ELSE IF v.kind = "text" THEN [err |-> "ValueError", t |-> 0]
    ELSE [err |-> "TypeError", t |-> 0]

\* ------------------------------------------------------------- cache file
\* the file is absent, is not JSON, is a JSON list, or is a JSON object
FileAbsent == [kind |-> "absent", map |-> EmptyMap]
FileInvalid == [kind |-> "invalid", map |-> EmptyMap]
FileList == [kind |-> "list", map |-> EmptyMap]
FileObject(m) == [kind |-> "object", map |-> m]

\* the in-memory cache is whatever json.load returned: a dict or a list
Dict(m) == [kind |-> "dict", map |-> m]
List == [kind |-> "list", map |-> EmptyMap]

\* a load that ignores the file
LoadCache_fresh(f) == Dict(EmptyMap)

\* load_persistent_cache / load_cache
LoadCache(f) ==
    IF f.kind = "object" THEN Dict(f.map)
    ELSE IF f.kind = "list" THEN List
    ELSE Dict(EmptyMap)

\* a save that leaves the file as it was
SaveCache_skipped(c, f, io) == [store |-> f, err |-> "none"]

\* save_persistent_cache / save_cache: the file after the write, and whether
\* the write raised
SaveCache(c, f, io) ==
    IF io = "ok" THEN [store |-> FileObject(c.map), err |-> "none"]
    ELSE IF io = "refused" THEN [store |-> f, err |-> "OSError"]
    ELSE [store |-> FileInvalid, err |-> "OSError"]

\* ------------------------------------------- HighRisk15mDeduplicator
\* get_15m_candle_start without the floor of the minute
get_15m_candle_start_unfloored(signal_timestamp) ==
    signal_timestamp - (signal_timestamp % Minutes(1))

\* get_15m_candle_start: minute floored to a multiple of 15, seconds zeroed
get_15m_candle_start(signal_timestamp) ==
    LET minutes == (Minute(signal_timestamp) \div BucketMinutes) * BucketMinutes
    IN  signal_timestamp - Minutes(Minute(signal_timestamp) - minutes)
                         - (signal_timestamp % Minutes(1))

\* key = f"{symbol}_{signal_type}_{candle_start.strftime('%Y%m%d_%H%M')}"
Key15m(symbol, signal_type, signal_timestamp) ==
    <<symbol, signal_type, StrfMinute(get_15m_candle_start(signal_timestamp))>>

\* is_alert_allowed that stamps a blocked key with the time of the attempt
is_alert_allowed_restamping(c, f, symbol, signal_type, signal_timestamp, utcnow, io) ==
    LET key == Key15m(symbol, signal_type, signal_timestamp)
        c2 == Dict(Put(c.map, key, IsoFormat(utcnow)))
        w  == SaveCache(c2, f, io)
    IN  IF c.kind = "list"
        THEN [cache |-> c, store |-> f, out |-> "TypeError"]
        ELSE IF key \in DOMAIN c.map
        THEN [cache |-> c2, store |-> w.store, out |-> "False"]
        ELSE [cache |-> c2, store |-> w.store,
              out |-> IF w.err = "none" THEN "True" ELSE w.err]

\* is_alert_allowed: the cache, the file and the outcome of the call
is_alert_allowed(c, f, symbol, signal_type, signal_timestamp, utcnow, io) ==
    LET key == Key15m(symbol, signal_type, signal_timestamp)
    IN  IF c.kind = "list"
        THEN [cache |-> c, store |-> f, out |-> "TypeError"]
        ELSE IF key \in DOMAIN c.map
        THEN [cache |-> c, store |-> f, out |-> "False"]
        ELSE LET c2 == Dict(Put(c.map, key, IsoFormat(utcnow)))
                 w  == SaveCache(c2, f, io)
             IN  [cache |-> c2, store |-> w.store,
                  out |-> IF w.err = "none" THEN "True" ELSE w.err]

\* the entries cleanup_expired_entries collects in expired_keys
Expired15m(m, utcnow) ==
    {k \in DOMAIN m :
        LET p == FromIsoFormat(m[k])
        IN  \/ p.err = "ValueError"
            \/ p.err = "none" /\ utcnow - p.t > Hours(ExpiryHours15m)}

\* cleanup_expired_entries
cleanup_expired_entries(c, f, utcnow, io) ==
    IF c.kind = "list"
    THEN [cache |-> c, store |-> f, out |-> "AttributeError"]
    ELSE IF \E k \in DOMAIN c.map : FromIsoFormat(c.map[k]).err = "TypeError"
    THEN [cache |-> c, store |-> f, out |-> "TypeError"]
    ELSE LET expired_keys == Expired15m(c.map, utcnow)
             c2 == Dict(Remove(c.map, expired_keys))
             w  == SaveCache(c2, f, io)
         IN  IF expired_keys = {}
             THEN [cache |-> c, store |-> f, out |-> "None"]
             ELSE [cache |-> c2, store |-> w.store,
                   out |-> IF w.err = "none" THEN "None" ELSE w.err]

\* --------------------------------------------------- FixedDeduplicator
\* crossover_key = f"{symbol}_{signal_type}_{ts.strftime('%Y%m%d_%H%M')}"
KeyCrossover(symbol, signal_type, crossover_timestamp) ==
    <<symbol, signal_type, StrfMinute(crossover_timestamp)>>

\* is_crossover_allowed without the membership test
is_crossover_allowed_unchecked(c, f, symbol, signal_type, crossover_timestamp, utcnow, io) ==
    LET crossover_key == KeyCrossover(symbol, signal_type, crossover_timestamp)
        c2 == Dict(Put(c.map, crossover_key, IsoFormat(utcnow)))
        w  == SaveCache(c2, f, io)
    IN  IF c.kind = "list"
        THEN [cache |-> c, store |-> f, out |-> "TypeError"]
        ELSE [cache |-> c2, store |-> w.store,
              out |-> IF w.err = "none" THEN "True" ELSE w.err]

\* is_crossover_allowed
is_crossover_allowed(c, f, symbol, signal_type, crossover_timestamp, utcnow, io) ==
    LET crossover_key == KeyCrossover(symbol, signal_type, crossover_timestamp)
    IN  IF c.kind = "list"
        THEN [cache |-> c, store |-> f, out |-> "TypeError"]
        ELSE IF crossover_key \in DOMAIN c.map
        THEN [cache |-> c, store |-> f, out |-> "False"]
        ELSE LET c2 == Dict(Put(c.map, crossover_key, IsoFormat(utcnow)))
                 w  == SaveCache(c2, f, io)
             IN  [cache |-> c2, store |-> w.store,
                  out |-> IF w.err = "none" THEN "True" ELSE w.err]

\* old_keys with the comparison widened to timestamp <= cutoff_time
OldKeys_inclusive(m, utcnow, hours) ==
    {k \in DOMAIN m :
        LET p == FromIsoFormat(m[k])
        IN  \/ p.err = "ValueError"
            \/ p.err = "none" /\ p.t <= utcnow - Hours(hours)}

\* the entries a cutoff sweep collects in old_keys: timestamp < cutoff_time
OldKeys(m, utcnow, hours) ==
    {k \in DOMAIN m :
        LET p == FromIsoFormat(m[k])
        IN  \/ p.err = "ValueError"
            \/ p.err = "none" /\ p.t < utcnow - Hours(hours)}

\* the sweep shared by cleanup_old_crossovers and cleanup_old_entries
CutoffSweep(c, f, utcnow, hours, io) ==
    IF c.kind = "list"
    THEN [cache |-> c, store |-> f, out |-> "AttributeError"]
    ELSE IF \E k \in DOMAIN c.map : FromIsoFormat(c.map[k]).err = "TypeError"
    THEN [cache |-> c, store |-> f, out |-> "TypeError"]
    ELSE LET old_keys == OldKeys(c.map, utcnow, hours)
             c2 == Dict(Remove(c.map, old_keys))
             w  == SaveCache(c2, f, io)
         IN  IF old_keys = {}
             THEN [cache |-> c, store |-> f, out |-> "None"]
             ELSE [cache |-> c2, store |-> w.store,
                   out |-> IF w.err = "none" THEN "None" ELSE w.err]

\* cleanup_old_crossovers
cleanup_old_crossovers(c, f, utcnow, io) ==
    CutoffSweep(c, f, utcnow, ExpiryHoursFixed, io)

\* -------------------------------------------- ProfessionalDeduplicator
\* timedelta(hours=cooldown_hours) with cooldown_hours = 0.25
cooldown_period == Hours(1) \div 4

\* cache_key = f"{symbol}_{signal_type}"
KeyCooldown(symbol, signal_type) == <<symbol, signal_type>>

\* is_signal_allowed with the cooldown comparison turned round
is_signal_allowed_reversed(c, f, symbol, signal_type, utcnow, io) ==
    LET cache_key == KeyCooldown(symbol, signal_type)
        c2 == Dict(Put(c.map, cache_key, IsoFormat(utcnow)))
        w  == SaveCache(c2, f, io)
        allow == [cache |-> c2, store |-> w.store,
                  out |-> IF w.err = "none" THEN "True" ELSE w.err]
    IN  IF c.kind = "list"
        THEN [cache |-> c, store |-> f, out |-> "TypeError"]
        ELSE IF cache_key \in DOMAIN c.map
        THEN LET p == FromIsoFormat(c.map[cache_key])
             IN  IF p.err # "none"
                 THEN [cache |-> c, store |-> f, out |-> p.err]
                 ELSE IF utcnow - p.t > cooldown_period
                 THEN [cache |-> c, store |-> f, out |-> "False"]
                 ELSE allow
        ELSE allow

\* is_signal_allowed: the timestamp argument is not used
is_signal_allowed(c, f, symbol, signal_type, utcnow, io) ==
    LET cache_key == KeyCooldown(symbol, signal_type)
        c2 == Dict(Put(c.map, cache_key, IsoFormat(utcnow)))
        w  == SaveCache(c2, f, io)
        allow == [cache |-> c2, store |-> w.store,
                  out |-> IF w.err = "none" THEN "True" ELSE w.err]
    IN  IF c.kind = "list"
        THEN [cache |-> c, store |-> f, out |-> "TypeError"]
        ELSE IF cache_key \in DOMAIN c.map
        THEN LET p == FromIsoFormat(c.map[cache_key])
             IN  IF p.err # "none"
                 THEN [cache |-> c, store |-> f, out |-> p.err]
                 ELSE IF utcnow - p.t < cooldown_period
                 THEN [cache |-> c, store |-> f, out |-> "False"]
                 ELSE allow
        ELSE allow

\* cleanup_old_entries
cleanup_old_entries(c, f, utcnow, io) ==
    CutoffSweep(c, f, utcnow, ExpiryHoursProfessional, io)

\* --------------------------------------------- FreshSignalDeduplicator
\* a freshness window longer than the 24 hours entries are kept
freshness_window_two_days(freshness_minutes) == Hours(48)

\* timedelta(minutes=freshness_minutes)
freshness_window(freshness_minutes) == Minutes(freshness_minutes)

\* signal_key = f"{symbol}_{signal_type}_{ts.strftime('%Y%m%d_%H%M%S')}"
KeyFresh(symbol, signal_type, signal_timestamp) ==
    <<symbol, signal_type, StrfSecond(signal_timestamp)>>

\* the record stored for an admitted signal
FreshRecord(utcnow, signal_timestamp) ==
    [kind |-> "dict", t |-> 0,
     alerted_at |-> IsoFormat(utcnow),
     signal_time |-> IsoFormat(signal_timestamp),
     freshness_seconds |-> utcnow - signal_timestamp]

\* is_signal_fresh_and_new of a deduplicator constructed with
\* freshness_minutes, called with a datetime
FreshAndNew(freshness_minutes, c, f, symbol, signal_type, signal_timestamp, utcnow, io) ==
    LET time_since_signal == utcnow - signal_timestamp
        is_fresh == time_since_signal <= freshness_window(freshness_minutes)
        signal_key == KeyFresh(symbol, signal_type, signal_timestamp)
    IN  IF ~is_fresh
        THEN [cache |-> c, store |-> f, out |-> "False"]
        ELSE IF c.kind = "list"
        THEN [cache |-> c, store |-> f, out |-> "TypeError"]
        ELSE IF signal_key \in DOMAIN c.map
        THEN [cache |-> c, store |-> f, out |-> "False"]
        ELSE LET c2 == Dict(Put(c.map, signal_key,
                                FreshRecord(utcnow, signal_timestamp)))
                 w  == SaveCache(c2, f, io)
             IN  [cache |-> c2, store |-> w.store,
                  out |-> IF w.err = "none" THEN "True" ELSE w.err]

\* is_signal_fresh_and_new of FreshSignalDeduplicator(): the default window
is_signal_fresh_and_new(c, f, symbol, signal_type, signal_timestamp, utcnow, io) ==
    FreshAndNew(FreshnessMinutes, c, f, symbol, signal_type, signal_timestamp,
                utcnow, io)

\* datetime.fromisoformat(data['alerted_at']): ValueError, TypeError and
\* KeyError are all caught by cleanup_old_signals
AlertedAt(data) ==
    IF data.kind = "dict" THEN FromIsoFormat(data.alerted_at)
    ELSE [err |-> "TypeError", t |-> 0]

\* cleanup_old_signals
cleanup_old_signals(c, f, utcnow, io) ==
    IF c.kind = "list"
    THEN [cache |-> c, store |-> f, out |-> "AttributeError"]
    ELSE LET old_keys == {k \in DOMAIN c.map :
                            LET p == AlertedAt(c.map[k])
                            IN  \/ p.err # "none"
                                \/ p.t < utcnow - Hours(ExpiryHoursFresh)}
             c2 == Dict(Remove(c.map, old_keys))
             w  == SaveCache(c2, f, io)
         IN  IF old_keys = {}
             THEN [cache |-> c, store |-> f, out |-> "None"]
             ELSE [cache |-> c2, store |-> w.store,
                   out |-> IF w.err = "none" THEN "None" ELSE w.err]

\* ------------------------------------------------------------ the system
\* the cache key a class builds for a signal
KeyOf(c, symbol, signal_type, ts) ==
    IF c = "HighRisk15m" THEN Key15m(symbol, signal_type, ts)
    ELSE IF c = "Fixed" THEN KeyCrossover(symbol, signal_type, ts)
    ELSE IF c = "Professional" THEN KeyCooldown(symbol, signal_type)
    ELSE KeyFresh(symbol, signal_type, ts)

\* the is-allowed method of a class, every write succeeding
AllowedOf(c, cch, f, symbol, signal_type, ts, utcnow) ==
    IF c = "HighRisk15m"
    THEN is_alert_allowed(cch, f, symbol, signal_type, ts, utcnow, "ok")
    ELSE IF c = "Fixed"
    THEN is_crossover_allowed(cch, f, symbol, signal_type, ts, utcnow, "ok")
    ELSE IF c = "Professional"
    THEN is_signal_allowed(cch, f, symbol, signal_type, utcnow, "ok")
    ELSE is_signal_fresh_and_new(cch, f, symbol, signal_type, ts, utcnow, "ok")

\* what the cache file can hold when the first process starts
InitialStores(c) ==
    LET k0 == KeyOf(c, "BTC", "BUY", 900)
    IN  {FileAbsent, FileInvalid, FileList,
         FileObject([k \in {k0} |-> BadText]),
         FileObject([k \in {k0} |-> NonString])}

\* no analyzer has run yet
NoRun ==
    [op |-> "none", at |-> 0, total_analyzed |-> 0, evaluated |-> << >>,
     errors |-> {}, signals |-> {}, checked |-> {}, passed |-> {},
     candle |-> 0, lost |-> {}, summary |-> FALSE, raised |-> "None"]

\* no time utility has been called yet
NoCalc ==
    [fn |-> "none", s |-> 0, us |-> 0, width |-> 0, err |-> "None",
     start |-> [s |-> 0, us |-> 0], close |-> [s |-> 0, us |-> 0],
     out |-> FALSE, key |-> << >>]

\* no indicator has been called yet
NoSeries ==
    [fn |-> "none", df |-> << >>, wt1 |-> << >>, wt2 |-> << >>,
     buySignal |-> << >>, sellSignal |-> << >>, err |-> "None"]

NoCall ==
    [op |-> "none", p |-> 0, symbol |-> "-", signal_type |-> "-", ts |-> 0,
     out |-> "None", recorded |-> {}, removed |-> {}, sent |-> {}]

\* the state before the first call, with the coins of the market data file
\* and the candle series an indicator is about to be given
Loaded(coins, df, ohlc) ==
    /\ cls \in Classes
    /\ now = 0
    /\ store \in InitialStores(cls)
    /\ cache = [p \in Procs |-> LoadCache(store)]
    /\ last = NoCall
    /\ hist = << >>
    /\ allows = [p \in Procs |-> EmptyMap]
    /\ allowedAt = [p \in Procs |-> EmptyMap]
    /\ prior = EmptyMap
    /\ runs = 1
    /\ ioFailed = 0
    /\ market_data = coins
    /\ run = NoRun
    /\ unsent = EmptyMap
    /\ calc = NoCalc
    /\ sig = [fn |-> "none", df |-> df, wt1 |-> << >>, wt2 |-> << >>,
              buySignal |-> << >>, sellSignal |-> << >>, err |-> "None"]
    /\ ha = [fn |-> "none", df |-> ohlc, ha_df |-> << >>]

Constructed(coins) == Loaded(coins, << >>, << >>)

Init == Constructed(<<"BTC">>)

\* the outcomes a write can have: all of them where writes may fail
Io(faulty) ==
    IF faulty /\ ioFailed < MaxIoFailures THEN IoOutcomes ELSE {"ok"}

Raised(out) == out \notin {"True", "False", "None"}

\* the history holds up to three successive calls for one symbol and signal
\* type, the first of which found no entry for them in the cache
NextHist(h, call, clean) ==
    IF /\ h # << >>
       /\ Len(h) < 3
       /\ h[1].symbol = call.symbol
       /\ h[1].signal_type = call.signal_type
    THEN Append(h, call)
    ELSE IF clean THEN <<call>> ELSE << >>

\* the bookkeeping of a True result for a key
Count(m, key) == Put(m, key, IF key \in DOMAIN m THEN m[key] + 1 ELSE 1)

\* the bookkeeping of the instant of a True result for a key
Stamp(m, key, t) ==
    Put(m, key, [at |-> t,
                 n |-> IF key \in DOMAIN m THEN m[key].n + 1 ELSE 1])

\* the bookkeeping common to the four is-allowed methods
Decide(p, op, r, symbol, signal_type, ts) ==
    LET key == KeyOf(cls, symbol, signal_type, ts)
        yes == r.out = "True"
        clean == /\ cache[p].kind = "dict"
                 /\ \A k \in DOMAIN cache[p].map :
                       k[1] # symbol \/ k[2] # signal_type
    IN  /\ cache' = [cache EXCEPT ![p] = r.cache]
        /\ store' = r.store
        /\ last' = [NoCall EXCEPT !.op = op, !.p = p, !.symbol = symbol,
                                  !.signal_type = signal_type, !.ts = ts,
                                  !.out = r.out,
                                  !.recorded = (DOMAIN r.cache.map)
                                               \ (DOMAIN cache[p].map)]
        /\ hist' = IF p = 1 /\ cls = "HighRisk15m"
                   THEN NextHist(hist, [symbol |-> symbol,
                                        signal_type |-> signal_type,
                                        ts |-> ts, out |-> r.out], clean)
                   ELSE hist
        /\ allows' = IF yes THEN [allows EXCEPT ![p] = Count(@, key)]
                     ELSE allows
        /\ allowedAt' = IF yes
                        THEN [allowedAt EXCEPT ![p] = Stamp(@, key, now)]
                        ELSE allowedAt
        /\ ioFailed' = IF r.out = "OSError" THEN ioFailed + 1 ELSE ioFailed
        /\ UNCHANGED <<cls, now, prior, runs, analysis, pure>>

\* the bookkeeping common to the four cleanup methods
Sweep(p, op, r) ==
    LET gone == (DOMAIN cache[p].map) \ (DOMAIN r.cache.map)
    IN  /\ cache' = [cache EXCEPT ![p] = r.cache]
        /\ store' = r.store
        /\ last' = [NoCall EXCEPT !.op = op, !.p = p, !.out = r.out,
                                  !.removed = gone]
        /\ hist' = IF p = 1 THEN << >> ELSE hist
        /\ allows' = [allows EXCEPT ![p] = Remove(@, gone)]
        /\ ioFailed' = IF r.out = "OSError" THEN ioFailed + 1 ELSE ioFailed
        /\ prior' = IF p = 1
                    THEN [k \in DOMAIN prior |->
                            IF k \in gone THEN [prior[k] EXCEPT !.swept = TRUE]
                            ELSE prior[k]]
                    ELSE prior
        /\ UNCHANGED <<cls, now, allowedAt, runs, analysis, pure>>

IsAlertAllowed(p, faulty) ==
    /\ cls = "HighRisk15m"
    /\ \E symbol \in Symbols, signal_type \in SignalTypes,
          ts \in SignalTimes(cls), io \in Io(faulty) :
          Decide(p, "is_alert_allowed",
                 is_alert_allowed(cache[p], store, symbol, signal_type, ts,
                                  now, io),
                 symbol, signal_type, ts)

CleanupExpiredEntries(p, faulty) ==
    /\ cls = "HighRisk15m"
    /\ \E io \in Io(faulty) :
          Sweep(p, "cleanup_expired_entries",
                cleanup_expired_entries(cache[p], store, now, io))

IsCrossoverAllowed(p, faulty) ==
    /\ cls = "Fixed"
    /\ \E symbol \in Symbols, signal_type \in SignalTypes,
          ts \in SignalTimes(cls), io \in Io(faulty) :
          Decide(p, "is_crossover_allowed",
                 is_crossover_allowed(cache[p], store, symbol, signal_type,
                                      ts, now, io),
                 symbol, signal_type, ts)

CleanupOldCrossovers(p, faulty) ==
    /\ cls = "Fixed"
    /\ \E io \in Io(faulty) :
          Sweep(p, "cleanup_old_crossovers",
                cleanup_old_crossovers(cache[p], store, now, io))

IsSignalAllowed(p, faulty) ==
    /\ cls = "Professional"
    /\ \E symbol \in Symbols, signal_type \in SignalTypes,
          ts \in SignalTimes(cls), io \in Io(faulty) :
          Decide(p, "is_signal_allowed",
                 is_signal_allowed(cache[p], store, symbol, signal_type,
                                   now, io),
                 symbol, signal_type, ts)

CleanupOldEntries(p, faulty) ==
    /\ cls = "Professional"
    /\ \E io \in Io(faulty) :
          Sweep(p, "cleanup_old_entries",
                cleanup_old_entries(cache[p], store, now, io))

\* the candle handed to the fresh deduplicator opened in the past
IsSignalFreshAndNew(p, faulty) ==
    /\ cls = "Fresh"
    /\ \E symbol \in Symbols, signal_type \in SignalTypes,
          ts \in SignalTimes(cls), io \in Io(faulty) :
          /\ ts <= now
          /\ Decide(p, "is_signal_fresh_and_new",
                    is_signal_fresh_and_new(cache[p], store, symbol,
                                            signal_type, ts, now, io),
                    symbol, signal_type, ts)

CleanupOldSignals(p, faulty) ==
    /\ cls = "Fresh"
    /\ \E io \in Io(faulty) :
          Sweep(p, "cleanup_old_signals",
                cleanup_old_signals(cache[p], store, now, io))

\* the clock moves on between calls
Tick ==
    /\ \E t \in Instants(cls) : t > now /\ now' = t
    /\ UNCHANGED <<cls, store, cache, last, hist, allows, allowedAt, prior,
                   runs, ioFailed, analysis, pure>>

\* __init__ of a new run of process 1: the cache is loaded from the file
Construct ==
    /\ runs < MaxRuns
    /\ runs' = runs + 1
    /\ cache' = [cache EXCEPT ![1] = LoadCache(store)]
    /\ last' = [NoCall EXCEPT !.op = "__init__", !.p = 1]
    /\ hist' = << >>
    /\ allows' = [allows EXCEPT ![1] = EmptyMap]
    /\ prior' = [k \in (DOMAIN prior) \cup (DOMAIN allowedAt[1]) |->
                    IF k \in DOMAIN allowedAt[1]
                    THEN [at |-> allowedAt[1][k].at,
                          swept |-> k \notin DOMAIN allows[1]]
                    ELSE prior[k]]
    /\ allowedAt' = [allowedAt EXCEPT ![1] = EmptyMap]
    /\ UNCHANGED <<cls, now, store, ioFailed, analysis, pure>>

\* one process calling its deduplicator; every write succeeds
Next ==
    \/ IsAlertAllowed(1, FALSE)
    \/ CleanupExpiredEntries(1, FALSE)
    \/ IsCrossoverAllowed(1, FALSE)
    \/ CleanupOldCrossovers(1, FALSE)
    \/ IsSignalAllowed(1, FALSE)
    \/ CleanupOldEntries(1, FALSE)
    \/ IsSignalFreshAndNew(1, FALSE)
    \/ CleanupOldSignals(1, FALSE)
    \/ Tick

Spec == Init /\ [][Next]_vars

\* successive runs of one process over the same cache file
NextRuns == Next \/ Construct

SpecRuns == Init /\ [][NextRuns]_vars

\* analyze_coin_15m for a coin whose latest candle carries a signal: the
\* try block around is_alert_allowed and the alert
AnalyzeCoin15m(p, faulty) ==
    /\ cls = "HighRisk15m"
    /\ \E symbol \in Symbols, signal_type \in SignalTypes,
          ts \in SignalTimes(cls), io \in Io(faulty) :
          LET r == is_alert_allowed(cache[p], store, symbol, signal_type,
                                    ts, now, io)
              key == Key15m(symbol, signal_type, ts)
              signal_sent == r.out = "True"
          IN  /\ cache' = [cache EXCEPT ![p] = r.cache]
              /\ store' = r.store
              /\ last' = [NoCall EXCEPT
                            !.op = "analyze_coin_15m", !.p = p,
                            !.symbol = symbol, !.signal_type = signal_type,
                            !.ts = ts,
                            !.out = IF signal_sent THEN "True" ELSE "False",
                            !.recorded = (DOMAIN r.cache.map)
                                         \ (DOMAIN cache[p].map),
                            !.sent = IF signal_sent THEN {key} ELSE {}]
              /\ hist' = << >>
              /\ allows' = IF signal_sent
                           THEN [allows EXCEPT ![p] = Count(@, key)]
                           ELSE allows
              /\ allowedAt' = IF signal_sent
                              THEN [allowedAt EXCEPT ![p] = Stamp(@, key, now)]
                              ELSE allowedAt
              /\ ioFailed' = IF r.out = "OSError" THEN ioFailed + 1
                             ELSE ioFailed
              /\ UNCHANGED <<cls, now, prior, runs, analysis, pure>>

InitIo == Init /\ cls = "HighRisk15m"

\* one high-risk analyzer whose cache writes may fail
NextIo ==
    \/ AnalyzeCoin15m(1, TRUE)
    \/ CleanupExpiredEntries(1, TRUE)
    \/ Tick

SpecIo == InitIo /\ [][NextIo]_vars

InitOverlap == Init /\ cls = "HighRisk15m" /\ store.kind = "absent"

\* two overlapping runs, each with the cache it loaded at start-up
NextOverlap ==
    \/ \E p \in Procs : IsAlertAllowed(p, FALSE)
    \/ \E p \in Procs : CleanupExpiredEntries(p, FALSE)

SpecOverlap == InitOverlap /\ [][NextOverlap]_vars

\* ------------------------------------------------------- the analyzers
\* the symbols of the loaded coins
Coins == {market_data[i] : i \in 1..Len(market_data)}

\* what the exchange and the indicator give for a coin in one run: no usable
\* candles, an exception inside the try block, or the flags of the candle
CandleKinds == {"no_data", "raises", "flat", "BUY", "SELL"}

\* fetch_ohlcv(..., '15m', ...): the width of a candle in minutes
CandleMinutes == 15

\* FreshSignalDeduplicator(freshness_minutes=10) of the fresh analyzer
AnalyzerFreshnessMinutes == 10

\* a shift that is no multiple of the 15-minute bucket
ToIst_odd_minutes(ts) == ts + Hours(5) + Minutes(37)

\* df.index + pd.Timedelta(hours=5, minutes=30)
ToIst(ts) == ts + Hours(5) + Minutes(30)

\* the open time of the last candle the exchange returns at utcnow
LatestCandle(utcnow) == utcnow - (utcnow % Minutes(CandleMinutes))

\* the candle whose flags an analyzer reads: iloc[-2] in the precise
\* analyzer, iloc[-1] in the others
CandleRead(c, utcnow) ==
    IF c = "Fixed" THEN LatestCandle(utcnow) - Minutes(CandleMinutes)
    ELSE LatestCandle(utcnow)

\* the timestamp handed to the deduplicator: the IST-shifted index, or the
\* utc_timestamp column in the fresh analyzer
PassedTimestamp(c, utcnow) ==
    IF c = "Fresh" THEN CandleRead(c, utcnow)
    ELSE ToIst(CandleRead(c, utcnow))

\* the deduplicator call of an analyzer
CheckOf(c, cch, f, symbol, signal_type, ts, utcnow) ==
    IF c = "Fresh"
    THEN FreshAndNew(AnalyzerFreshnessMinutes, cch, f, symbol, signal_type,
                     ts, utcnow, "ok")
    ELSE AllowedOf(c, cch, f, symbol, signal_type, ts, utcnow)

\* the try block of analyze_coin_*: fetch, indicator, deduplicator
TryCoin(c, cch, f, symbol, kind, utcnow) ==
    LET ts == PassedTimestamp(c, utcnow)
        r == CheckOf(c, cch, f, symbol, kind, ts, utcnow)
        key == KeyOf(c, symbol, kind, ts)
    IN  IF kind \in {"no_data", "flat"}
        THEN [cache |-> cch, store |-> f, signal |-> {}, checked |-> {},
              passed |-> {}, raised |-> "None", error |-> FALSE]
        ELSE IF kind = "raises"
        THEN [cache |-> cch, store |-> f, signal |-> {}, checked |-> {},
              passed |-> {}, raised |-> "Exception", error |-> FALSE]
        ELSE [cache |-> r.cache, store |-> r.store,
              signal |-> IF r.out = "True" THEN {key} ELSE {},
              checked |-> {key}, passed |-> {ts},
              raised |-> IF Raised(r.out) THEN r.out ELSE "None",
              error |-> FALSE]

\* an except clause that lets everything but ValueError through
except_ValueError(r) ==
    IF r.raised = "ValueError"
    THEN [r EXCEPT !.raised = "None", !.error = TRUE, !.signal = {}]
    ELSE r

\* except Exception: the failure is reported and the coin yields no signal
except_Exception(r) ==
    IF r.raised # "None"
    THEN [r EXCEPT !.raised = "None", !.error = TRUE, !.signal = {}]
    ELSE r

\* analyze_coin_15m, analyze_coin_professional, analyze_coin_precise,
\* analyze_coin_fresh_signals
analyze_coin(c, cch, f, symbol, kind, utcnow) ==
    except_Exception(TryCoin(c, cch, f, symbol, kind, utcnow))

\* a run about to enter its loop with the cache and file it has
Start(cch, f) ==
    [cache |-> cch, store |-> f, total_analyzed |-> 0, evaluated |-> << >>,
     errors |-> {}, signals |-> {}, checked |-> {}, passed |-> {},
     raised |-> "None"]

\* the loop variables after one more coin has been analyzed with result r
Counted(acc, coin, r) ==
    [cache |-> r.cache, store |-> r.store,
     total_analyzed |-> IF r.raised = "None" THEN acc.total_analyzed + 1
                        ELSE acc.total_analyzed,
     evaluated |-> Append(acc.evaluated, coin),
     errors |-> IF r.error THEN acc.errors \cup {coin} ELSE acc.errors,
     signals |-> acc.signals \cup r.signal,
     checked |-> acc.checked \cup r.checked,
     passed |-> acc.passed \cup r.passed,
     raised |-> r.raised]

RECURSIVE RunLoop(_, _, _, _, _)
\* for coin in batch: analyze the coin, collect its signal, count it; an
\* exception that leaves analyze_coin_* ends the loop
RunLoop(c, coins, inputs, utcnow, acc) ==
    IF coins = << >> \/ acc.raised # "None" THEN acc
    ELSE CHOOSE end \in
            {RunLoop(c, Tail(coins), inputs, utcnow,
                     Counted(acc, Head(coins), r)) :
                r \in {analyze_coin(c, acc.cache, acc.store, Head(coins),
                                    inputs[Head(coins)], utcnow)}} : TRUE

\* a branch that drops the entries of the signals whose alert failed
Transmit_readmitting(cch, f, lost) ==
    IF lost = {} THEN [cache |-> cch, store |-> f]
    ELSE [cache |-> Dict(Remove(cch.map, lost)),
          store |-> FileObject(Remove(cch.map, lost))]

\* the branch on the result of send_consolidated_alert /
\* send_professional_alert: it prints, the deduplicator is not touched
Transmit(cch, f, lost) == [cache |-> cch, store |-> f]

\* the bookkeeping of the alerts that failed to transmit
Unsent(u, signals, lost, utcnow) ==
    [k \in ((DOMAIN u) \ signals) \cup lost |->
        IF k \in lost THEN [at |-> utcnow] ELSE u[k]]

\* one run of an analyzer, from the construction of its deduplicator to the
\* cleanup after the summary: the fresh analyzer sweeps before its loop, the
\* high-risk analyzer after its summary, the other two never
Analysis(op, inputs) ==
    \E pre \in {IF cls = "Fresh"
                 THEN cleanup_old_signals(LoadCache(store), store, now, "ok")
                 ELSE [cache |-> LoadCache(store), store |-> store,
                       out |-> "None"]} :
    \E loop \in {RunLoop(cls, market_data, inputs, now,
                         Start(pre.cache, pre.store))} :
    LET Sent(lost) == Transmit(loop.cache, loop.store, lost)
        Post(sent) ==
            IF cls = "HighRisk15m"
            THEN cleanup_expired_entries(sent.cache, sent.store, now, "ok")
            ELSE [cache |-> sent.cache, store |-> sent.store, out |-> "None"]
        began == [NoRun EXCEPT !.op = op, !.at = now,
                               !.candle = CandleRead(cls, now)]
    IN  /\ IF Raised(pre.out)
           THEN /\ cache' = [cache EXCEPT ![1] = pre.cache]
                /\ store' = pre.store
                /\ run' = [began EXCEPT !.raised = pre.out]
                /\ unsent' = unsent
           ELSE IF loop.raised # "None"
           THEN /\ cache' = [cache EXCEPT ![1] = loop.cache]
                /\ store' = loop.store
                /\ run' = [began EXCEPT
                             !.total_analyzed = loop.total_analyzed,
                             !.evaluated = loop.evaluated,
                             !.errors = loop.errors,
                             !.signals = loop.signals,
                             !.checked = loop.checked,
                             !.passed = loop.passed,
                             !.raised = loop.raised]
                /\ unsent' = unsent
           ELSE \E lost \in SUBSET loop.signals :
                \E post \in {Post(Sent(lost))} :
                /\ op \in {"run_fixed_analysis", "run_fresh_analysis"}
                      => lost \in {{}, loop.signals}
                /\ cache' = [cache EXCEPT ![1] = post.cache]
                /\ store' = post.store
                /\ run' = [began EXCEPT
                             !.total_analyzed = loop.total_analyzed,
                             !.evaluated = loop.evaluated,
                             !.errors = loop.errors,
                             !.signals = loop.signals,
                             !.checked = loop.checked,
                             !.passed = loop.passed,
                             !.lost = lost,
                             !.summary = TRUE,
                             !.raised = IF Raised(post.out) THEN post.out
                                        ELSE "None"]
                /\ unsent' = Unsent(unsent, loop.signals, lost, now)
        /\ last' = [NoCall EXCEPT !.op = op, !.p = 1]
        /\ UNCHANGED <<cls, now, hist, allows, allowedAt, prior, runs,
                       ioFailed, market_data, pure>>

\* main() of analyzer_15m.py
RunHighRiskAnalysis ==
    /\ cls = "HighRisk15m"
    /\ \E inputs \in [Coins -> CandleKinds] :
          Analysis("run_high_risk_analysis", inputs)

\* analyzer_15m_precise.py run as a script
RunFixedAnalysis ==
    /\ cls = "Fixed"
    /\ \E inputs \in [Coins -> CandleKinds] :
          Analysis("run_fixed_analysis", inputs)

\* analyzer_15m_professional.py run as a script
RunProfessionalAnalysis ==
    /\ cls = "Professional"
    /\ \E inputs \in [Coins -> CandleKinds] :
          Analysis("run_professional_analysis", inputs)

\* analyzer_15m_fresh.py run as a script
RunFreshAnalysis ==
    /\ cls = "Fresh"
    /\ \E inputs \in [Coins -> CandleKinds] :
          Analysis("run_fresh_analysis", inputs)

\* a reading of the clock inside a candle: 5 minutes after the candle of
\* 00:15 opened
WithinCandle == {Minutes(20)}

\* time passes until the scheduler starts a run inside a candle
Wait ==
    /\ \E t \in WithinCandle : t > now /\ now' = t
    /\ UNCHANGED <<cls, store, cache, last, hist, allows, allowedAt, prior,
                   runs, ioFailed, analysis, pure>>

\* the cache file is absent or holds a JSON list when the first run starts
InitAnalyzers == Init /\ store.kind \in {"absent", "list"}

\* the analyzer of one variant run again and again by its scheduler
NextAnalyzers ==
    \/ RunHighRiskAnalysis
    \/ RunFixedAnalysis
    \/ RunProfessionalAnalysis
    \/ RunFreshAnalysis
    \/ Tick
    \/ Wait

\* a market data file with two coins, and any cache file
InitBatch == Constructed(<<"BTC", "ETH">>)

\* one pass of an analyzer over a batch of coins
NextBatch ==
    \/ RunHighRiskAnalysis
    \/ RunFixedAnalysis
    \/ RunProfessionalAnalysis
    \/ RunFreshAnalysis

SpecBatch == InitBatch /\ [][NextBatch]_vars

\* the scheduler keeps starting runs and the clock keeps moving
SpecAnalyzers ==
    /\ InitAnalyzers
    /\ [][NextAnalyzers]_vars
    /\ WF_vars(RunHighRiskAnalysis)
    /\ WF_vars(RunFixedAnalysis)
    /\ WF_vars(RunProfessionalAnalysis)
    /\ WF_vars(RunFreshAnalysis)
    /\ WF_vars(Tick)

\* ----------------------------------------------- utils/timestamp_utils
\* a naive datetime: whole seconds since midnight of day 0, and microseconds
Datetime(s, us) == [s |-> s, us |-> us]

\* a < b and a <= b on datetimes
Before(a, b) == a.s < b.s \/ (a.s = b.s /\ a.us < b.us)

NotAfter(a, b) == a = b \/ Before(a, b)

\* the instants handed to the time utilities: around 00:02, 00:07, 00:15,
\* 00:17, 00:56, 01:00 and midnight, on the second and just before the next
TimeInputs ==
    {Datetime(secs, us) :
        secs \in {0, 119, 120, 420, 840, 899, 900, 1019, 1020, 3360, 3480,
                  3599, 3600, 86399},
        us \in {0, 999000}}

\* the values of timeframe_minutes
Widths == 1..60

\* the names bound in the globals of timestamp_utils.py: its imports, its
\* two constants and its functions
TimestampUtilsNames ==
    {"datetime", "pytz", "IST", "UTC", "get_current_ist_time",
     "get_15m_candle_boundaries", "should_run_analysis_now",
     "get_current_analysis_candle", "format_ist_timestamp"}

\* the evaluation of timedelta(minutes=m) inside timestamp_utils.py
timedelta(m) ==
    IF "timedelta" \in TimestampUtilsNames
    THEN [err |-> "None", seconds |-> Minutes(m)]
    ELSE [err |-> "NameError", seconds |-> 0]

\* get_15m_candle_start on a datetime with microseconds:
\* timestamp.replace(minute=minutes, second=0, microsecond=0)
CandleStart15m(timestamp) ==
    Datetime(get_15m_candle_start(timestamp.s), 0)

\* get_15m_candle_boundaries for a naive UTC datetime
get_15m_candle_boundaries(timestamp, timeframe_minutes) ==
    LET utc_naive == timestamp
        minutes == (Minute(utc_naive.s) \div timeframe_minutes)
                   * timeframe_minutes
        candle_start_utc ==
            Datetime(utc_naive.s - Minutes(Minute(utc_naive.s) - minutes)
                                 - (utc_naive.s % Minutes(1)), 0)
        width == timedelta(timeframe_minutes)
        candle_close_utc ==
            Datetime(candle_start_utc.s + width.seconds, 0)
    IN  IF width.err # "None"
        THEN [err |-> width.err, candle_start_utc |-> Datetime(0, 0),
              candle_close_utc |-> Datetime(0, 0)]
        ELSE [err |-> "None", candle_start_utc |-> candle_start_utc,
              candle_close_utc |-> candle_close_utc]

\* should_run_analysis_now, with now_utc the reading of datetime.utcnow()
should_run_analysis_now(now_utc) ==
    LET boundaries == get_15m_candle_boundaries(now_utc, 15)
        close == boundaries.candle_close_utc
        \* time_since_close >= timedelta(minutes=2), < timedelta(minutes=15)
        lower == Datetime(close.s + timedelta(2).seconds, close.us)
        upper == Datetime(close.s + timedelta(15).seconds, close.us)
    IN  IF boundaries.err # "None"
        THEN [err |-> boundaries.err, out |-> FALSE]
        ELSE IF timedelta(2).err # "None"
        THEN [err |-> timedelta(2).err, out |-> FALSE]
        ELSE [err |-> "None",
              out |-> NotAfter(lower, now_utc) /\ Before(now_utc, upper)]

\* get_current_analysis_candle, with now_utc the reading of
\* datetime.utcnow()
get_current_analysis_candle(now_utc) ==
    LET current_boundaries == get_15m_candle_boundaries(now_utc, 15)
        close == current_boundaries.candle_close_utc
        grace == timedelta(2)
        prev_close_utc == Datetime(close.s - timedelta(15).seconds, close.us)
    IN  IF current_boundaries.err # "None"
        THEN current_boundaries
        ELSE IF grace.err # "None"
        THEN [current_boundaries EXCEPT !.err = grace.err]
        ELSE IF NotAfter(Datetime(close.s + grace.seconds, close.us), now_utc)
        THEN current_boundaries
        ELSE get_15m_candle_boundaries(prev_close_utc, 15)

\* a call of a time utility leaves everything else alone
Called(c) ==
    /\ calc' = c
    /\ UNCHANGED <<cls, now, store, cache, last, hist, allows, allowedAt,
                   prior, runs, ioFailed, analysis, sig, ha>>

GetCandleStart ==
    \E t \in TimeInputs :
        Called([NoCalc EXCEPT !.fn = "get_15m_candle_start",
                              !.s = t.s, !.us = t.us, !.width = BucketMinutes,
                              !.start = CandleStart15m(t)])

GetCandleBoundaries ==
    \E t \in TimeInputs, timeframe_minutes \in Widths :
        \E r \in {get_15m_candle_boundaries(t, timeframe_minutes)} :
            Called([NoCalc EXCEPT !.fn = "get_15m_candle_boundaries",
                                  !.s = t.s, !.us = t.us,
                                  !.width = timeframe_minutes,
                                  !.err = r.err,
                                  !.start = r.candle_start_utc,
                                  !.close = r.candle_close_utc])

ShouldRunAnalysisNow ==
    \E t \in TimeInputs :
        \E r \in {should_run_analysis_now(t)} :
            Called([NoCalc EXCEPT !.fn = "should_run_analysis_now",
                                  !.s = t.s, !.us = t.us, !.width = 15,
                                  !.err = r.err, !.out = r.out])

GetCurrentAnalysisCandle ==
    \E t \in TimeInputs :
        \E r \in {get_current_analysis_candle(t)} :
            Called([NoCalc EXCEPT !.fn = "get_current_analysis_candle",
                                  !.s = t.s, !.us = t.us, !.width = 15,
                                  !.err = r.err,
                                  !.start = r.candle_start_utc,
                                  !.close = r.candle_close_utc])

\* the cache key of is_alert_allowed for an instant of the index the
\* high-risk analyzer has shifted to IST
IstCacheKey ==
    \E t \in TimeInputs, symbol \in Symbols, signal_type \in SignalTypes :
        Called([NoCalc EXCEPT !.fn = "is_alert_allowed",
                              !.s = t.s, !.us = t.us, !.width = BucketMinutes,
                              !.start = CandleStart15m(Datetime(ToIst(t.s), t.us)),
                              !.key = Key15m(symbol, signal_type, ToIst(t.s))])

InitTime == Init /\ cls = "HighRisk15m" /\ store = FileAbsent

\* the time utilities applied to every instant of TimeInputs
NextTime ==
    \/ GetCandleStart
    \/ GetCandleBoundaries
    \/ ShouldRunAnalysisNow
    \/ GetCurrentAnalysisCandle
    \/ IstCacheKey

SpecTime == InitTime /\ [][NextTime]_vars

\* ------------------------------------------------------------ indicators
\* Floats are fixed-point numbers in hundredths; NaN is a value outside the
\* range of every series.
Scale == 100

NaN == 0 - 1000000000

\* the defaults of config['cipherb']
wtChannelLen == 9

wtAverageLen == 12

wtMALen == 3

osLevel2 == 0 - 60

obLevel2 == 60

\* float comparisons: every comparison with NaN is false
Lt(a, b) == a # NaN /\ b # NaN /\ a < b

Le(a, b) == a # NaN /\ b # NaN /\ a <= b

Gt(a, b) == Lt(b, a)

Ge(a, b) == Le(b, a)

\* a - b and abs(a) on floats
Minus(a, b) == IF a = NaN \/ b = NaN THEN NaN ELSE a - b

Abs(a) == IF a = NaN THEN NaN ELSE IF a < 0 THEN 0 - a ELSE a

\* series.shift(1)
Shift(series) == [i \in 1..Len(series) |-> IF i = 1 THEN NaN ELSE series[i - 1]]

RECURSIVE Ewm(_, _, _, _)
\* series.ewm(span=length, adjust=False).mean() from row i on; weighted is
\* the average of the rows before i, and alpha = 2 / (length + 1)
Ewm(vals, length, i, weighted) ==
    IF i > Len(vals)
    THEN << >>
    ELSE LET cur == vals[i]
             avg == IF i = 1 THEN cur
                    ELSE IF weighted # NaN
                    THEN IF cur # NaN
                         THEN ((length - 1) * weighted + 2 * cur)
                              \div (length + 1)
                         ELSE weighted
                    ELSE cur
         IN  <<avg>> \o Ewm(vals, length, i + 1, avg)

ema(series, length) == Ewm(series, length, 1, NaN)

RECURSIVE Sum(_, _, _)
Sum(series, from, to) ==
    IF from > to THEN 0 ELSE series[from] + Sum(series, from + 1, to)

\* series.rolling(window=length).mean()
sma(series, length) ==
    [i \in 1..Len(series) |->
        IF i < length \/ \E j \in (i - length + 1)..i : series[j] = NaN
        THEN NaN
        ELSE Sum(series, i - length + 1, i) \div length]

\* (high + low + close) / 3
Hlc3(df) ==
    [i \in 1..Len(df) |-> ((df[i].high + df[i].low + df[i].close) * Scale) \div 3]

\* (hlc3 - esa) / (0.015 * de); de is zero only while hlc3 = esa, and 0 / 0
\* is NaN
Ci(hlc3, esa, de) ==
    [i \in 1..Len(hlc3) |->
        IF de[i] = 0 \/ de[i] = NaN
        THEN NaN
        ELSE ((((hlc3[i] - esa[i]) * 1000) \div de[i]) * 20) \div 3]

\* esa, de, ci and wt1, common to the four indicators
Wt1(df) ==
    LET hlc3 == Hlc3(df)
        esa == ema(hlc3, wtChannelLen)
        de == ema([i \in 1..Len(hlc3) |-> Abs(Minus(hlc3[i], esa[i]))],
                  wtChannelLen)
    IN  ema(Ci(hlc3, esa, de), wtAverageLen)

\* wavetrend of cipherb_fixed, and the same lines of cipherb_exact:
\* wt2 is the simple moving average of wt1
wavetrend(src) ==
    LET wt1 == Wt1(src) IN [wt1 |-> wt1, wt2 |-> sma(wt1, wtMALen)]

\* the WaveTrend lines of cipherb_pure and cipherb_precise: wt2 is the
\* exponential moving average of wt1
WaveTrendEma(df) ==
    LET wt1 == Wt1(df) IN [wt1 |-> wt1, wt2 |-> ema(wt1, wtMALen)]

Signals(fn, df, wt, buySignal, sellSignal) ==
    [fn |-> fn, df |-> df, wt1 |-> wt.wt1, wt2 |-> wt.wt2,
     buySignal |-> buySignal, sellSignal |-> sellSignal, err |-> "None"]

wtCrossUp_always(wt1, wt2, i) == TRUE

\* wtCrossUp = wt2 - wt1 <= 0
wtCrossUp(wt1, wt2, i) == Le(Minus(wt2[i], wt1[i]), 0)

\* wtCrossDown = wt2 - wt1 >= 0
wtCrossDown(wt1, wt2, i) == Ge(Minus(wt2[i], wt1[i]), 0)

\* wtCross = ta.cross(wt1, wt2), on wt1.shift(1) and wt2.shift(1)
wtCross(wt1, wt2, i) ==
    LET wt1_prev == Shift(wt1)
        wt2_prev == Shift(wt2)
    IN  \/ Gt(wt1[i], wt2[i]) /\ Le(wt1_prev[i], wt2_prev[i])
        \/ Lt(wt1[i], wt2[i]) /\ Ge(wt1_prev[i], wt2_prev[i])

wtOversold(wt1, wt2, i) ==
    Le(wt1[i], osLevel2 * Scale) /\ Le(wt2[i], osLevel2 * Scale)

wtOverbought(wt1, wt2, i) ==
    Ge(wt2[i], obLevel2 * Scale) /\ Ge(wt1[i], obLevel2 * Scale)

\* the two flag columns of the cross policy
CrossFlags(fn, df, wt) ==
    Signals(fn, df, wt,
        [i \in 1..Len(df) |-> /\ wtCross(wt.wt1, wt.wt2, i)
                              /\ wtCrossUp(wt.wt1, wt.wt2, i)
                              /\ wtOversold(wt.wt1, wt.wt2, i)],
        [i \in 1..Len(df) |-> /\ wtCross(wt.wt1, wt.wt2, i)
                              /\ wtCrossDown(wt.wt1, wt.wt2, i)
                              /\ wtOverbought(wt.wt1, wt.wt2, i)])

detect_exact_cipherb_signals(df) ==
    CrossFlags("detect_exact_cipherb_signals", df, wavetrend(df))

\* cipherb_fixed: if ha_data.empty: return pd.DataFrame()
detect_cipherb_signals(ha_data) ==
    IF ha_data = << >>
    THEN Signals("detect_cipherb_signals", ha_data,
                 [wt1 |-> SubSeq(ha_data, 1, 0), wt2 |-> SubSeq(ha_data, 1, 0)],
                 << >>, << >>)
    ELSE CrossFlags("detect_cipherb_signals", ha_data, wavetrend(ha_data))

\* config.get('oversold_threshold', -60) and
\* config.get('overbought_threshold', 60) of an empty config
DefaultConfig ==
    [oversold_threshold |-> osLevel2, overbought_threshold |-> obLevel2]

\* a buy flag on every candle above the oversold level
buy_condition_level(wt1, i, oversold) == Gt(wt1[i], oversold * Scale)

\* (wt1 > oversold) & (wt1.shift(1) <= oversold)
buy_condition(wt1, i, oversold) ==
    Gt(wt1[i], oversold * Scale) /\ Le(Shift(wt1)[i], oversold * Scale)

\* a sell flag on every candle below the overbought level
sell_condition_level(wt1, i, overbought) == Lt(wt1[i], overbought * Scale)

\* (wt1 < overbought) & (wt1.shift(1) >= overbought)
sell_condition(wt1, i, overbought) ==
    Lt(wt1[i], overbought * Scale) /\ Ge(Shift(wt1)[i], overbought * Scale)

\* cipherb_pure from the signals frame on: the two flag columns set by the
\* vectorised conditions
PureSignals(df, wt, config) ==
    Signals("detect_pure_cipherb_signals", df, wt,
        [i \in 1..Len(df) |->
            buy_condition(wt.wt1, i, config.oversold_threshold)],
        [i \in 1..Len(df) |->
            sell_condition(wt.wt1, i, config.overbought_threshold)])
    @@ [config |-> config]

detect_pure_cipherb_signals(df, config) ==
    PureSignals(df, WaveTrendEma(df), config)

RECURSIVE PreciseLoop(_, _, _, _, _, _)
\* for i in range(1, len(signals)), with row the 1-based position of i;
\* the result is the pair of flag columns
PreciseLoop(wt1, row, buySignal, sellSignal, oversold, overbought) ==
    IF row > Len(wt1)
    THEN <<buySignal, sellSignal>>
    ELSE LET current_wt1 == wt1[row]
             previous_wt1 == wt1[row - 1]
             buy == Le(previous_wt1, oversold * Scale)
                    /\ Gt(current_wt1, oversold * Scale)
             sell == Ge(previous_wt1, overbought * Scale)
                     /\ Lt(current_wt1, overbought * Scale)
         IN  PreciseLoop(wt1, row + 1,
                 IF buy THEN [buySignal EXCEPT ![row] = TRUE] ELSE buySignal,
                 IF sell THEN [sellSignal EXCEPT ![row] = TRUE]
                 ELSE sellSignal,
                 oversold, overbought)

\* a loop in which an undefined previous wt1 counts as beyond the threshold
PreciseSignals_undefined_crosses(df, wt, config) ==
    Signals("detect_precise_cipherb_signals", df, wt,
        [i \in 1..Len(df) |->
            /\ i > 1
            /\ ~Gt(wt.wt1[i - 1], config.oversold_threshold * Scale)
            /\ Gt(wt.wt1[i], config.oversold_threshold * Scale)],
        [i \in 1..Len(df) |->
            /\ i > 1
            /\ ~Lt(wt.wt1[i - 1], config.overbought_threshold * Scale)
            /\ Lt(wt.wt1[i], config.overbought_threshold * Scale)])
    @@ [config |-> config]

\* cipherb_precise from the signals frame on: the two flag columns set by
\* the loop
PreciseSignals(df, wt, config) ==
    LET flags == PreciseLoop(wt.wt1, 2, [i \in 1..Len(df) |-> FALSE],
                             [i \in 1..Len(df) |-> FALSE],
                             config.oversold_threshold,
                             config.overbought_threshold)
    IN  Signals("detect_precise_cipherb_signals", df, wt, flags[1], flags[2])
        @@ [config |-> config]

detect_precise_cipherb_signals(df, config) ==
    PreciseSignals(df, WaveTrendEma(df), config)

\* the longest candle series handed to an indicator
MaxBars == 7

\* the first close of a series and the changes of the close between candles
FirstClose == 10000

Moves == {0 - 30, 0 - 10, 10, 30}

RECURSIVE Closes(_, _, _)
Closes(moves, i, close) ==
    IF i > Len(moves)
    THEN <<close>>
    ELSE <<close>> \o Closes(moves, i + 1, close + moves[i])

\* a candle around its close
Candle(close) == [high |-> close + 1, low |-> close - 1, close |-> close]

\* the candle series handed to the indicators: the empty one and every
\* series of at most MaxBars candles whose closes change by Moves
CandleInputs ==
    {<< >>} \cup
    UNION {{[i \in 1..n |-> Candle(Closes(moves, 1, FirstClose)[i])] :
                moves \in [1..(n - 1) -> Moves]} : n \in 1..MaxBars}

\* a call of an indicator on the series at hand leaves everything else alone
Detected(signals) ==
    /\ sig.fn = "none"
    /\ sig' = signals
    /\ UNCHANGED <<cls, now, store, cache, last, hist, allows, allowedAt,
                   prior, runs, ioFailed, analysis, calc, ha>>

DetectExactCipherbSignals == Detected(detect_exact_cipherb_signals(sig.df))

DetectCipherbSignals == Detected(detect_cipherb_signals(sig.df))

DetectPureCipherbSignals == Detected(detect_pure_cipherb_signals(sig.df, DefaultConfig))

DetectPreciseCipherbSignals == Detected(detect_precise_cipherb_signals(sig.df, DefaultConfig))

InitSignals ==
    \E df \in CandleInputs :
        Loaded(<<"BTC">>, df, << >>) /\ cls = "HighRisk15m" /\ store = FileAbsent

\* each indicator applied to every series of CandleInputs
NextSignals ==
    \/ DetectExactCipherbSignals
    \/ DetectCipherbSignals
    \/ DetectPureCipherbSignals
    \/ DetectPreciseCipherbSignals

SpecSignals == InitSignals /\ [][NextSignals]_vars

\* ------------------------------------------------ the two signal policies
\* the longest wt1 column handed to a policy
MaxRows == 5

\* the values of wt1: undefined, and below, at and above the levels
Levels == {NaN, (0 - 90) * Scale, (0 - 70) * Scale, (0 - 60) * Scale,
           60 * Scale, 90 * Scale}

\* frames in which wt1 has been computed
Wt1Inputs == UNION {[1..n -> [wt1 : Levels]] : n \in 0..MaxRows}

\* the default levels, and a pair whose oversold level is the higher one
Configs ==
    {DefaultConfig, [oversold_threshold |-> 60, overbought_threshold |-> 0 - 60]}

Wt1Column(df) == [i \in 1..Len(df) |-> df[i].wt1]

\* cipherb_exact and cipherb_fixed from wt1 on: wt2 = sma(wt1, wtMALen) and
\* the cross flags
CrossPolicy ==
    \E fn \in {"detect_exact_cipherb_signals", "detect_cipherb_signals"} :
        Detected(CrossFlags(fn, sig.df,
                    [wt1 |-> Wt1Column(sig.df),
                     wt2 |-> sma(Wt1Column(sig.df), wtMALen)]))

\* cipherb_pure from wt1 on: wt2 = ema(wt1, ma_len) and the vectorised flags
PurePolicy ==
    \E config \in Configs :
        Detected(PureSignals(sig.df,
                    [wt1 |-> Wt1Column(sig.df),
                     wt2 |-> ema(Wt1Column(sig.df), wtMALen)], config))

\* cipherb_precise from wt1 on: wt2 = ema(wt1, ma_len) and the loop
PrecisePolicy ==
    \E config \in Configs :
        Detected(PreciseSignals(sig.df,
                    [wt1 |-> Wt1Column(sig.df),
                     wt2 |-> ema(Wt1Column(sig.df), wtMALen)], config))

InitPolicies ==
    \E df \in Wt1Inputs :
        Loaded(<<"BTC">>, df, << >>) /\ cls = "HighRisk15m" /\ store = FileAbsent

\* each policy applied to every wt1 column of Wt1Inputs
NextPolicies ==
    \/ CrossPolicy
    \/ PurePolicy
    \/ PrecisePolicy

SpecPolicies == InitPolicies /\ [][NextPolicies]_vars

\* ---------------------------------------------------- utils/heikin_ashi
RECURSIVE HaOpenFrom_first(_, _, _)
HaOpenFrom_first(ha_close, i, prev_open) ==
    IF i > Len(ha_close)
    THEN << >>
    ELSE <<(prev_open + ha_close[i - 1]) \div 2>>
         \o HaOpenFrom_first(ha_close, i + 1, prev_open)

RECURSIVE HaOpenFrom(_, _, _)
\* for i in range(1, len(ha_df)): the Open column from row i on, with
\* prev_open the Open of the row before
HaOpenFrom(ha_close, i, prev_open) ==
    IF i > Len(ha_close)
    THEN << >>
    ELSE LET open == (prev_open + ha_close[i - 1]) \div 2
         IN  <<open>> \o HaOpenFrom(ha_close, i + 1, open)

\* pd.concat([a, b, c], axis=1).max(axis=1) and .min(axis=1), row by row
Max3(a, b, c) ==
    IF a >= b /\ a >= c THEN a ELSE IF b >= c THEN b ELSE c

Min3(a, b, c) ==
    IF a <= b /\ a <= c THEN a ELSE IF b <= c THEN b ELSE c

heikin_ashi(df) ==
    IF df = << >>
    THEN df
    ELSE LET Close == [i \in 1..Len(df) |->
                          (df[i].Open + df[i].High + df[i].Low + df[i].Close)
                          \div 4]
             first == (df[1].Open + df[1].Close) \div 2
             Open == <<first>> \o HaOpenFrom(Close, 2, first)
         IN  [i \in 1..Len(df) |->
                 [timestamp |-> df[i].timestamp,
                  Close |-> Close[i],
                  Open |-> Open[i],
                  High |-> Max3(Open[i], Close[i], df[i].High),
                  Low |-> Min3(Open[i], Close[i], df[i].Low)]]

\* the longest raw series handed to heikin_ashi
MaxCandles == 3

\* the prices of raw candles
Prices == {100 * Scale, 108 * Scale}

\* the raw candles: Low <= Open, Close <= High
RawCandles ==
    {c \in [Open : Prices, High : Prices, Low : Prices, Close : Prices] :
        /\ c.Low <= c.Open /\ c.Low <= c.Close
        /\ c.Open <= c.High /\ c.Close <= c.High}

\* the raw series: consecutive 15-minute candles, indexed by their opening
OhlcInputs ==
    UNION {{[i \in 1..n |->
                [timestamp |-> Minutes(CandleMinutes) * (i - 1),
                 Open |-> cs[i].Open, High |-> cs[i].High,
                 Low |-> cs[i].Low, Close |-> cs[i].Close]] :
              cs \in [1..n -> RawCandles]} : n \in 0..MaxCandles}

\* a call of heikin_ashi on the series at hand
HeikinAshi ==
    /\ ha.fn = "none"
    /\ ha' = [fn |-> "heikin_ashi", df |-> ha.df, ha_df |-> heikin_ashi(ha.df)]
    /\ UNCHANGED <<cls, now, store, cache, last, hist, allows, allowedAt,
                   prior, runs, ioFailed, analysis, calc, sig>>

InitHeikin ==
    \E ohlc \in OhlcInputs :
        Loaded(<<"BTC">>, << >>, ohlc) /\ cls = "HighRisk15m"
        /\ store = FileAbsent

NextHeikin == HeikinAshi

SpecHeikin == InitHeikin /\ [][NextHeikin]_vars

\* -------------------------------------------------------------- claims
\* epoch-aligned quarter-hour buckets, as the claims speak of them
SameBucket(a, b) == a \div 900 = b \div 900

NextBucket(a, b) == b \div 900 = (a \div 900) + 1

\* C1: starting with no entry for the symbol and signal type, two successive
\* is_alert_allowed calls with timestamps in one 15-minute bucket return
\* True then False, and a following call in the next bucket returns True.
C1_TrueFalseTrue ==
    cls = "HighRisk15m" =>
        /\ Len(hist) >= 1 => hist[1].out = "True"
        /\ Len(hist) >= 2 /\ SameBucket(hist[1].ts, hist[2].ts)
              => hist[2].out = "False"
        /\ (/\ Len(hist) = 3
            /\ SameBucket(hist[1].ts, hist[2].ts)
            /\ NextBucket(hist[1].ts, hist[3].ts))
              => hist[3].out = "True"

C1_Witness ==
    /\ cls = "HighRisk15m"
    /\ Len(hist) = 3
    /\ hist[1].ts # hist[2].ts
    /\ SameBucket(hist[1].ts, hist[2].ts)
    /\ NextBucket(hist[1].ts, hist[3].ts)
    /\ <<hist[1].out, hist[2].out, hist[3].out>> = <<"True", "False", "True">>

\* C2: is_signal_allowed returns True exactly when the key has no entry or
\* now - stored instant >= cooldown_period, and records now on every True;
\* so two admissions of one key are at least cooldown_period apart.
C2_CooldownAdmission ==
    [][(IsSignalAllowed(1, FALSE) /\ ~Raised(last'.out)) =>
        LET key == <<last'.symbol, last'.signal_type>>
            m == cache[1].map
            due == \/ key \notin DOMAIN m
                   \/ now - m[key].t >= 15 * 60
        IN  /\ (last'.out = "True") <=> due
            /\ last'.out = "True" =>
                  /\ cache'[1].map[key] = IsoFormat(now)
                  /\ key \in DOMAIN allowedAt[1] =>
                        now - allowedAt[1][key].at >= 15 * 60
       ]_vars

C2_Witness ==
    /\ cls = "Professional"
    /\ last.op = "is_signal_allowed"
    /\ last.out = "True"
    /\ allowedAt[1][<<last.symbol, last.signal_type>>].n >= 2

\* C3: in the per-key deduplicators a cache key receives at most one True
\* until a cleanup pass has removed its entry.
C3_OneAllowPerEntry ==
    cls \in {"HighRisk15m", "Fixed", "Fresh"} =>
        \A k \in DOMAIN allows[1] : allows[1][k] <= 1

\* a key admitted, swept by a cleanup pass, and admitted again
C3_Witness ==
    /\ cls \in {"HighRisk15m", "Fixed", "Fresh"}
    /\ \E k \in DOMAIN allows[1] :
          allows[1][k] = 1 /\ allowedAt[1][k].n = 2

AllowOps ==
    {"is_alert_allowed", "is_crossover_allowed", "is_signal_allowed",
     "is_signal_fresh_and_new"}

CleanupOps ==
    {"cleanup_expired_entries", "cleanup_old_crossovers",
     "cleanup_old_entries", "cleanup_old_signals"}

\* C5: with no write failure, after every admitted decision and after every
\* cleanup pass the cache file holds exactly the in-memory mapping (a pass
\* that removes nothing leaves a file that loads to that mapping), and every
\* key that has received True and was not removed since is in the file.
C5_StoreHoldsCache ==
    /\ (last.op \in AllowOps /\ last.out = "True")
          => store = FileObject(cache[1].map)
    /\ (last.op \in CleanupOps /\ last.out = "None")
          => /\ LoadCache(store) = cache[1]
             /\ last.removed # {} => store = FileObject(cache[1].map)
    /\ (DOMAIN allows[1]) \subseteq (DOMAIN store.map)

\* a cleanup pass removed one entry, kept another, and rewrote the file
C5_Witness ==
    /\ last.op \in CleanupOps
    /\ last.removed # {}
    /\ DOMAIN allows[1] # {}
    /\ store = FileObject(cache[1].map)

\* the expiry of each cache, in seconds
Ttl(c) == IF c = "Fixed" THEN 48 * 3600 ELSE 24 * 3600

\* the recorded instant of a parseable entry, -1 for any other entry
Recorded(v) ==
    IF v.kind = "iso" THEN v.t
    ELSE IF v.kind = "dict" /\ v.alerted_at.kind = "iso" THEN v.alerted_at.t
    ELSE -1

\* C10: a cleanup pass at time now leaves exactly the previously present
\* parseable entries whose recorded instant is not older than the TTL, each
\* with its value unchanged.
C10_CleanupKeepsYoung ==
    [][(/\ \/ CleanupExpiredEntries(1, FALSE)
           \/ CleanupOldCrossovers(1, FALSE)
           \/ CleanupOldEntries(1, FALSE)
           \/ CleanupOldSignals(1, FALSE)
        /\ last'.out = "None") =>
        LET m == cache[1].map
            young == {k \in DOMAIN m :
                        Recorded(m[k]) >= 0 /\ now - Recorded(m[k]) <= Ttl(cls)}
        IN  cache'[1].map = [k \in young |-> m[k]]
       ]_vars

\* a pass at the TTL boundary removed an older entry and kept a younger one
C10_Witness ==
    /\ last.op \in CleanupOps
    /\ last.out = "None"
    /\ last.removed # {}
    /\ \E k \in DOMAIN cache[1].map :
          Recorded(cache[1].map[k]) >= 0 /\ Recorded(cache[1].map[k]) < now

\* C6: when two runs overlap, each with the cache it loaded at start-up, at
\* most one of them gets True from is_alert_allowed for a key.
C6_AtMostOneAdmission ==
    \A k \in DOMAIN allowedAt[1] : k \notin DOMAIN allowedAt[2]

\* C7: a failed write of the cache file during is_alert_allowed does not
\* abort the evaluation: every signal whose admission the call recorded is
\* alerted by analyze_coin_15m.
C7_WriteFailureStillAlerts ==
    last.op = "analyze_coin_15m" => last.sent = last.recorded

\* C8: a cache file that is absent, not JSON, or JSON other than an object
\* gives an empty cache, and no later call raises because of it.
C8_StartsEmptyNeverRaises ==
    store.kind \in {"absent", "invalid", "list"} =>
        /\ cache[1].map = EmptyMap
        /\ ~Raised(last.out)

\* an entry whose value does not parse as a timestamp
Corrupt(v) == Recorded(v) < 0

CorruptKeys(m) == {k \in DOMAIN m : Corrupt(m[k])}

\* C9: an entry whose value does not parse is treated as expired: cleanup
\* removes it without raising, an is-allowed check on its key admits
\* instead of raising, and decisions for other keys are unaffected.
C9_CorruptEntryTolerated ==
    [][cache[1].kind = "dict" =>
        LET m == cache[1].map
            k == KeyOf(cls, last'.symbol, last'.signal_type, last'.ts)
            allowStep == \/ IsAlertAllowed(1, FALSE)
                         \/ IsCrossoverAllowed(1, FALSE)
                         \/ IsSignalAllowed(1, FALSE)
                         \/ IsSignalFreshAndNew(1, FALSE)
            cleanupStep == \/ CleanupExpiredEntries(1, FALSE)
                           \/ CleanupOldCrossovers(1, FALSE)
                           \/ CleanupOldEntries(1, FALSE)
                           \/ CleanupOldSignals(1, FALSE)
        IN  /\ cleanupStep =>
                /\ last'.out = "None"
                /\ CorruptKeys(m) \cap (DOMAIN cache'[1].map) = {}
            /\ (allowStep /\ k \in CorruptKeys(m)) =>
                /\ ~Raised(last'.out)
                /\ cls # "Fresh" => last'.out = "True"
            /\ (allowStep /\ k \notin CorruptKeys(m)) =>
                last'.out = AllowedOf(cls, Dict(Remove(m, CorruptKeys(m))),
                                      store, last'.symbol, last'.signal_type,
                                      last'.ts, now).out
       ]_vars

\* the entries of the cache file that are older than the expiry of the cache
Stale ==
    {k \in DOMAIN store.map :
        /\ Recorded(store.map[k]) >= 0
        /\ now - Recorded(store.map[k]) > Ttl(cls)}

\* C11: under repeated runs of an analyzer of any variant, an entry that has
\* grown older than the TTL is eventually removed from the cache file.
C11_EntriesEventuallySwept == (Stale # {}) ~> (Stale = {})

\* a step that is one run of an analyzer
RunStep ==
    \/ RunHighRiskAnalysis
    \/ RunFixedAnalysis
    \/ RunProfessionalAnalysis
    \/ RunFreshAnalysis

\* C12: a failed alert transmission never reverses a dedup decision: the
\* entry of a signal whose alert failed is still in the cache and the file
\* when the run ends, and a later check of the same key inside the same
\* bucket or cooldown window does not admit it.
C12_FailedSendStaysBlocked ==
    [][RunStep =>
        /\ \A k \in run'.lost :
              /\ k \in DOMAIN cache'[1].map
              /\ k \in DOMAIN store'.map
        /\ \A k \in run'.checked \cap (DOMAIN unsent) :
              (cls = "Professional" => now - unsent[k].at < 15 * 60)
                  => k \notin run'.signals
       ]_vars

\* a later run checked a signal whose alert had failed, and blocked it
C12_Witness ==
    /\ cls \in {"Fixed", "Fresh", "Professional"}
    /\ \E k \in (run.checked \ run.signals) \cap (DOMAIN unsent) :
          unsent[k].at < run.at

\* C13: per-symbol failures are isolated: whatever raises while a symbol is
\* evaluated, a run that has entered its loop evaluates every symbol in
\* order and reaches its summary with total_analyzed = number of symbols.
C13_FailuresIsolated ==
    run.evaluated # << >> =>
        /\ run.evaluated = market_data
        /\ run.total_analyzed = Len(market_data)
        /\ run.summary

\* the first symbol failed and a later symbol was still admitted
C13_Witness ==
    /\ Len(market_data) = 2
    /\ market_data[1] \in run.errors
    /\ run.total_analyzed = 2
    /\ \E k \in run.signals : k[1] = market_data[2]

\* C14: the timestamp an analyzer hands to its deduplicator is the UTC
\* instant of the candle it read; the +5:30 shift never reaches the key.
C14_UtcReachesDeduplicator ==
    /\ \A ts \in run.passed : ts = run.candle
    /\ \A k \in run.checked :
          k = KeyOf(cls, k[1], k[2], run.candle)

\* the argument of the latest call of a time utility
Arg == Datetime(calc.s, calc.us)

\* C15: for width 15 the bucket start computed by get_15m_candle_start and
\* get_15m_candle_boundaries is the instant with its minute floored to a
\* multiple of 15 and seconds and microseconds zeroed, the bucket close is
\* start + 15 minutes, and start <= t < close.
C15_QuarterHourBucket ==
    /\ calc.fn = "get_15m_candle_start" =>
          /\ calc.start = Datetime(calc.s - (calc.s % 900), 0)
          /\ NotAfter(calc.start, Arg)
          /\ Before(Arg, Datetime(calc.start.s + 900, 0))
    /\ (calc.fn = "get_15m_candle_boundaries" /\ calc.width = 15) =>
          /\ calc.err = "None"
          /\ calc.start = Datetime(calc.s - (calc.s % 900), 0)
          /\ calc.close = Datetime(calc.start.s + 900, 0)
          /\ NotAfter(calc.start, Arg)
          /\ Before(Arg, calc.close)

\* C16: for every width from 1 to 60 minutes the bucket returned by
\* get_15m_candle_boundaries is a half-open interval of that width aligned
\* to the epoch that contains the instant.
C16_EpochAlignedBuckets ==
    calc.fn = "get_15m_candle_boundaries" =>
        /\ calc.err = "None"
        /\ calc.start.us = 0
        /\ calc.start.s % (calc.width * 60) = 0
        /\ calc.close = Datetime(calc.start.s + calc.width * 60, 0)
        /\ NotAfter(calc.start, Arg)
        /\ Before(Arg, calc.close)

\* C17: should_run_analysis_now returns True exactly when at least 2 and
\* less than 15 minutes have passed since the most recent 15-minute close.
C17_RunsAfterGrace ==
    calc.fn = "should_run_analysis_now" =>
        /\ calc.err = "None"
        /\ calc.out <=> (calc.s % 900 >= 2 * 60)

\* the rows of the latest indicator result
Rows == 1..Len(sig.buySignal)

\* C18: under the cross policy (cipherb_exact, cipherb_fixed) buySignal is
\* true at a row exactly when wt1 was at or below wt2 on the row before, is
\* above wt2 on this row, and both lines are at or below the oversold level;
\* sellSignal is the mirror image with the overbought level; both flags are
\* false on the first row.
C18_CrossPolicy ==
    sig.fn \in {"detect_exact_cipherb_signals", "detect_cipherb_signals"} =>
        \A i \in Rows :
            /\ sig.buySignal[i] <=>
                  /\ i > 1
                  /\ Le(sig.wt1[i - 1], sig.wt2[i - 1])
                  /\ Gt(sig.wt1[i], sig.wt2[i])
                  /\ Le(sig.wt1[i], 0 - 6000)
                  /\ Le(sig.wt2[i], 0 - 6000)
            /\ sig.sellSignal[i] <=>
                  /\ i > 1
                  /\ Ge(sig.wt1[i - 1], sig.wt2[i - 1])
                  /\ Lt(sig.wt1[i], sig.wt2[i])
                  /\ Ge(sig.wt1[i], 6000)
                  /\ Ge(sig.wt2[i], 6000)

C18_Witness ==
    /\ sig.fn = "detect_exact_cipherb_signals"
    /\ \E i \in Rows : sig.buySignal[i] /\ sig.wt1[i] > sig.wt2[i]

\* C19: under the threshold policy (cipherb_pure, cipherb_precise) buySignal
\* is true at a row exactly when wt1 was at or below the oversold level on
\* the row before and is above it on this row; sellSignal exactly when wt1
\* was at or above the overbought level and is below it now; wt2 plays no
\* part, and both flags are false on the first row.
C19_ThresholdPolicy ==
    sig.fn \in {"detect_pure_cipherb_signals",
                "detect_precise_cipherb_signals"} =>
        \A i \in Rows :
            /\ sig.buySignal[i] <=>
                  /\ i > 1
                  /\ Le(sig.wt1[i - 1], 0 - 6000)
                  /\ Gt(sig.wt1[i], 0 - 6000)
            /\ sig.sellSignal[i] <=>
                  /\ i > 1
                  /\ Ge(sig.wt1[i - 1], 6000)
                  /\ Lt(sig.wt1[i], 6000)

C19_Witness ==
    /\ sig.fn = "detect_pure_cipherb_signals"
    /\ \E i \in Rows : sig.buySignal[i] /\ sig.wt1[i - 1] <= 0 - 6000

\* C20: for the empty series and every series shorter than channel_len +
\* average_len, an indicator returns without raising, the result is empty
\* or all undefined, and no flag is true.
C20_ShortSeriesGiveNothing ==
    (sig.fn # "none" /\ Len(sig.df) < 9 + 12) =>
        /\ sig.err = "None"
        /\ \A i \in Rows : ~sig.buySignal[i] /\ ~sig.sellSignal[i]
        /\ \A i \in 1..Len(sig.wt1) : sig.wt1[i] = NaN /\ sig.wt2[i] = NaN

\* C21: heikin_ashi returns a frame of the length and index of its input
\* (empty for empty) in which Close is the mean of the four raw prices, Open
\* starts at the mean of the first raw open and close and then is the mean
\* of the previous row's Open and Close, High is the largest and Low the
\* smallest of Open, Close and the raw extreme; so Low <= Open, Close <= High.
C21_HeikinAshi ==
    ha.fn = "heikin_ashi" =>
        LET df == ha.df
            out == ha.ha_df
        IN  /\ Len(out) = Len(df)
            /\ \A i \in 1..Len(df) :
                  /\ out[i].timestamp = df[i].timestamp
                  /\ out[i].Close =
                        (df[i].Open + df[i].High + df[i].Low + df[i].Close)
                        \div 4
                  /\ i = 1 => out[i].Open = (df[1].Open + df[1].Close) \div 2
                  /\ i > 1 => out[i].Open =
                                 (out[i - 1].Open + out[i - 1].Close) \div 2
                  /\ out[i].High >= out[i].Open /\ out[i].High >= out[i].Close
                  /\ out[i].High >= df[i].High
                  /\ out[i].High \in {out[i].Open, out[i].Close, df[i].High}
                  /\ out[i].Low <= out[i].Open /\ out[i].Low <= out[i].Close
                  /\ out[i].Low <= df[i].Low
                  /\ out[i].Low \in {out[i].Open, out[i].Close, df[i].Low}

C21_Witness ==
    /\ ha.fn = "heikin_ashi"
    /\ Len(ha.ha_df) = 3
    /\ ha.ha_df[3].Open # ha.ha_df[2].Open
    /\ ha.ha_df[3].High > ha.df[3].High

\* C22: the last candle of a fetched series is still in progress (it closes
\* after now, so it is not finalized); every analyzer evaluates the candle
\* before it, so no key is checked for a candle that has not closed.
C22_OnlyClosedCandles ==
    run.checked # {} =>
        /\ run.candle = LatestCandle(run.at) - Minutes(15)
        /\ run.candle + Minutes(15) <= run.at

\* C23: get_current_analysis_candle returns the most recently closed
\* 15-minute candle: its close is not after now, and now is less than
\* 15 minutes plus the 2-minute grace after it.
C23_MostRecentlyClosed ==
    calc.fn = "get_current_analysis_candle" =>
        /\ calc.err = "None"
        /\ NotAfter(calc.close, Arg)
        /\ Before(Arg, Datetime(calc.close.s + 17 * 60, calc.close.us))

\* C24: the fresh pipeline admits a signal only if it occurred within the
\* 2 minutes before the run's reading of the UTC clock.
C24_FreshWithinTwoMinutes ==
    (cls = "Fresh" /\ run.op = "run_fresh_analysis") =>
        \A k \in run.signals : \A ts \in run.passed : run.at - ts <= 2 * 60

\* a step that is one call of an is-allowed method
DecisionStep ==
    \/ IsAlertAllowed(1, FALSE)
    \/ IsCrossoverAllowed(1, FALSE)
    \/ IsSignalAllowed(1, FALSE)
    \/ IsSignalFreshAndNew(1, FALSE)

\* C25: a blocked decision changes nothing: when an is-allowed call returns
\* False (duplicate key, cooldown running, stale signal) the in-memory cache
\* and the cache file are exactly what they were before the call.
C25_BlockedChangesNothing ==
    [][(DecisionStep /\ last'.out = "False") =>
          cache' = cache /\ store' = store]_vars

C25_Witness ==
    /\ last.out = "False"
    /\ last.op \in {"is_alert_allowed", "is_signal_allowed"}
    /\ cache[1].kind = "dict"
    /\ KeyOf(cls, last.symbol, last.signal_type, last.ts) \in DOMAIN cache[1].map
    /\ Recorded(cache[1].map[KeyOf(cls, last.symbol, last.signal_type,
                                   last.ts)]) \in 0..(now - 1)

C27_IstShiftKeepsPartition ==
    calc.fn = "is_alert_allowed" =>
        \A b \in TimeInputs :
            (Key15m(calc.key[1], calc.key[2], ToIst(b.s)) = calc.key)
                <=> (b.s \div Minutes(15) = calc.s \div Minutes(15))

\* 00:07 keyed after the shift, with 00:14 sharing its key and 00:15 not
C27_Witness ==
    /\ calc.fn = "is_alert_allowed"
    /\ calc.s = 420
    /\ Key15m(calc.key[1], calc.key[2], ToIst(840)) = calc.key
    /\ Key15m(calc.key[1], calc.key[2], ToIst(900)) # calc.key
    /\ calc.key[3] = <<0, 5, 30>>

\* C28: under the cross policy and under the threshold policy no two
\* neighbouring candles both carry buySignal, and no two neighbouring
\* candles both carry sellSignal.
C28_NoNeighbouringSignals ==
    sig.fn # "none" =>
        \A i \in Rows :
            (i + 1) \in Rows =>
                /\ ~(sig.buySignal[i] /\ sig.buySignal[i + 1])
                /\ ~(sig.sellSignal[i] /\ sig.sellSignal[i + 1])

\* a cross-policy buy flag on a row whose next row is still above wt2 and
\* oversold, and is not flagged
C28_Witness ==
    /\ sig.fn = "detect_cipherb_signals"
    /\ \E i \in Rows :
          /\ (i + 1) \in Rows
          /\ sig.buySignal[i]
          /\ ~sig.buySignal[i + 1]
          /\ Gt(sig.wt1[i + 1], sig.wt2[i + 1])
          /\ Le(sig.wt1[i + 1], osLevel2 * Scale)
          /\ Le(sig.wt2[i + 1], osLevel2 * Scale)

\* the flag columns of the other threshold indicator on the wt1 of the
\* latest call
OtherFlags ==
    LET wt == [wt1 |-> sig.wt1, wt2 |-> sig.wt2]
    IN  IF sig.fn = "detect_pure_cipherb_signals"
        THEN PreciseSignals(sig.df, wt, sig.config)
        ELSE PureSignals(sig.df, wt, sig.config)

\* C29: for every wt1 column, undefined values included, and every pair of
\* levels, the vectorised conditions of cipherb_pure and the loop of
\* cipherb_precise set buySignal and sellSignal on the same rows.
C29_PureEqualsPrecise ==
    sig.fn \in {"detect_pure_cipherb_signals",
                "detect_precise_cipherb_signals"} =>
        /\ sig.buySignal = OtherFlags.buySignal
        /\ sig.sellSignal = OtherFlags.sellSignal

\* the loop has flagged a row after an undefined wt1 and left the row next
\* to the undefined one unflagged, under the pair of levels that is not the
\* default
C29_Witness ==
    /\ sig.fn = "detect_precise_cipherb_signals"
    /\ sig.config # DefaultConfig
    /\ \E i \in Rows :
          /\ (i + 2) \in Rows
          /\ sig.wt1[i] = NaN
          /\ Gt(sig.wt1[i + 1], sig.config.oversold_threshold * Scale)
          /\ ~sig.buySignal[i + 1]
          /\ \E j \in Rows : sig.buySignal[j]

\* C30: no update is lost between overlapping runs: a key that one run has
\* persisted by an admission is still in the cache file after the other
\* run, which loaded the file earlier, has saved its own admission or
\* cleanup, unless the entry is older than the expiry.
C30_NoLostUpdate ==
    \A p \in Procs :
        \A k \in DOMAIN allowedAt[p] :
            now - allowedAt[p][k].at <= Ttl(cls) => k \in DOMAIN store.map

====
